---- MODULE Spec2Model ----
(***************************************************************************)
(* Model of prepare_model.py: one run of main, which writes an optional    *)
(* requirements manifest, builds a tar.gz model package, uploads it to S3, *)
(* reports the outcome and removes the manifest.                           *)
(*                                                                         *)
(* Character strings the program computes with (paths, keys, file          *)
(* contents) are sequences of one-character strings, so that               *)
(* concatenation, prefixes and line splitting are computed, not assumed.   *)
(* Every file-system or network call may fail; its failure is an           *)
(* exception that propagates unless the code catches it.                   *)
(***************************************************************************)
EXTENDS Integers, Sequences, FiniteSets, TLC

\* ---------------------------------------------------------------- bounds
MaxNameLen == 2      \* longest model name drawn
MaxPackages == 2     \* longest --requirements list drawn
MaxFiles == 2        \* most files in the model directory

\* ---------------------------------------------------------------- inputs
NameAlphabet == {"a", "/"}
PackageNames == {<<"n">>, <<"s", "=", "1">>}
BucketNames == {<<"b">>, <<"c", "d">>}
OutputDirs == {<<".">>, <<"o">>, <<"o", "/">>, <<>>}
PriorRequirements == <<"o", "l", "d", "\n">>

SeqsUpTo(S, lo, hi) == UNION {[1..k -> S] : k \in lo..hi}

ModelNames == SeqsUpTo(NameAlphabet, 1, MaxNameLen)
RequirementLists == SeqsUpTo(PackageNames, 0, MaxPackages)
ModelDirs ==
    {[exists |-> FALSE, files |-> {}]}
        \cup {[exists |-> TRUE, files |-> F] : F \in SUBSET (1..MaxFiles)}

\* ------------------------------------------------------- fixed strings
None == <<>>
NoFile == [exists |-> FALSE, content |-> <<>>]
TarGz == <<".", "t", "a", "r", ".", "g", "z">>
ModelsPrefix == <<"m", "o", "d", "e", "l", "s", "/">>
S3Scheme == <<"s", "3", ":", "/", "/">>

\* The upload's possible endings: success, the botocore ClientError the
\* code names in its except clause, and failures of other classes.
UploadFailureKinds ==
    {"ClientError", "EndpointConnectionError", "NoCredentialsError",
     "S3UploadFailedError"}

VARIABLES args, pc, cwdReq, tempScript, archive, requirements_file,
          model_package, s3_key, s3_url, uploadCall, uploadOutcome,
          stdout, steps, failedAt

vars == <<args, pc, cwdReq, tempScript, archive, requirements_file,
          model_package, s3_key, s3_url, uploadCall, uploadOutcome,
          stdout, steps, failedAt>>

\* ------------------------------------------------------ pure functions
PathJoin(a, b) ==
    IF Len(b) > 0 /\ b[1] = "/" THEN b
    ELSE IF Len(a) = 0 \/ a[Len(a)] = "/" THEN a \o b
    ELSE a \o <<"/">> \o b

ModelPackagePath(output_dir, model_name) ==
    PathJoin(output_dir, model_name \o TarGz)

\* A key built with the wrong prefix.
S3KeyWrongPrefix(model_name) ==
    <<"m", "o", "d", "e", "l", "/">> \o model_name \o TarGz

S3Key(model_name) == ModelsPrefix \o model_name \o TarGz

S3Url(bucket_name, key) == S3Scheme \o bucket_name \o <<"/">> \o key

create_inference_script == <<"i", "m", "p", "o", "r", "t", "\n">>

\* A manifest written without line terminators.
RECURSIVE RequirementsTextUnterminated(_)
RequirementsTextUnterminated(packages) ==
    IF packages = <<>> THEN <<>>
    ELSE Head(packages) \o RequirementsTextUnterminated(Tail(packages))

RECURSIVE RequirementsText(_)
RequirementsText(packages) ==
    IF packages = <<>> THEN <<>>
    ELSE Head(packages) \o <<"\n">> \o RequirementsText(Tail(packages))

Entry(arcname, member, data) ==
    [arcname |-> arcname, member |-> member, data |-> data]

RECURSIVE ModelEntries(_)
ModelEntries(files) ==
    IF files = {} THEN <<>>
    ELSE LET f == CHOOSE x \in files : \A y \in files : x <= y
         IN <<Entry("model", f, <<>>)>> \o ModelEntries(files \ {f})

Raise(step) ==
    /\ pc' = "crashed"
    /\ failedAt' = step

\* ---------------------------------------------------------------- Init
Init ==
    /\ args \in [model_dir : ModelDirs, bucket_name : BucketNames,
                 model_name : ModelNames, requirements : RequirementLists,
                 output_dir : OutputDirs]
    /\ pc = "makedirs"
    /\ cwdReq \in {NoFile, [exists |-> TRUE, content |-> PriorRequirements]}
    /\ tempScript = NoFile
    /\ archive = [state |-> "absent", entries |-> <<>>]
    /\ requirements_file = ""
    /\ model_package = None
    /\ s3_key = None
    /\ s3_url = None
    /\ uploadCall = <<>>
    /\ uploadOutcome = "none"
    /\ stdout = <<>>
    /\ steps = <<>>
    /\ failedAt = "none"

\* ------------------------------------------------------------- actions
MakeDirs ==
    /\ pc = "makedirs"
    /\ steps' = Append(steps, "makedirs")
    /\ \/ /\ args.output_dir # <<>>
          /\ model_package' = ModelPackagePath(args.output_dir, args.model_name)
          /\ pc' = "requirements"
          /\ UNCHANGED failedAt
       \/ /\ Raise("makedirs")
          /\ UNCHANGED model_package
    /\ UNCHANGED <<args, cwdReq, tempScript, archive, requirements_file,
                   s3_key, s3_url, uploadCall, uploadOutcome, stdout>>


\* create_requirements_file, called when package names were supplied.
CreateRequirementsFile ==
    /\ pc = "requirements"
    /\ args.requirements # <<>>
    /\ steps' = Append(steps, "manifest")
    /\ \/ /\ cwdReq' = [exists |-> TRUE,
                        content |-> RequirementsText(args.requirements)]
          /\ requirements_file' = "requirements.txt"
          /\ stdout' = Append(stdout, [msg |-> "created_requirements",
                                       package |-> None, url |-> None])
          /\ pc' = "tar_open"
          /\ UNCHANGED failedAt
       \/ \* open() fails: nothing is written
          /\ Raise("manifest")
          /\ UNCHANGED <<cwdReq, requirements_file, stdout>>
       \* a write fails after k complete lines
       \/ \E k \in 0..(Len(args.requirements) - 1) :
             /\ cwdReq' = [exists |-> TRUE,
                           content |-> RequirementsText(
                                           SubSeq(args.requirements, 1, k))]
             /\ Raise("manifest")
             /\ UNCHANGED <<requirements_file, stdout>>
    /\ UNCHANGED <<args, tempScript, archive, model_package, s3_key, s3_url,
                   uploadCall, uploadOutcome>>

\* No package names: requirements_file stays None.
NoRequirements ==
    /\ pc = "requirements"
    /\ args.requirements = <<>>
    /\ pc' = "tar_open"
    /\ UNCHANGED <<args, cwdReq, tempScript, archive, requirements_file,
                   model_package, s3_key, s3_url, uploadCall, uploadOutcome,
                   stdout, steps, failedAt>>

\* create_model_package: tarfile.open(output_file, "w:gz")
TarOpen ==
    /\ pc = "tar_open"
    /\ steps' = Append(steps, "build")
    /\ \/ /\ archive' = [state |-> "open", entries |-> <<>>]
          /\ pc' = "add_model"
          /\ UNCHANGED failedAt
       \/ /\ Raise("build")
          /\ UNCHANGED archive
    /\ UNCHANGED <<args, cwdReq, tempScript, requirements_file,
                   model_package, s3_key, s3_url, uploadCall, uploadOutcome,
                   stdout>>

\* An exception inside the with block leaves the file without its end.
Truncated == [archive EXCEPT !.state = "partial"]

\* The model directory added without the existence test.
AddMissingModelDir ==
    /\ pc = "add_model"
    /\ ~args.model_dir.exists
    /\ archive' = Truncated
    /\ Raise("add_model")
    /\ UNCHANGED <<args, cwdReq, tempScript, requirements_file,
                   model_package, s3_key, s3_url, uploadCall, uploadOutcome,
                   stdout, steps>>

AddModelFiles ==
    /\ pc = "add_model"
    /\ args.model_dir.exists
    /\ \/ /\ archive' = [archive EXCEPT !.entries =
                            @ \o <<Entry("model", 0, <<>>)>>
                              \o ModelEntries(args.model_dir.files)]
          /\ pc' = "add_requirements"
          /\ UNCHANGED failedAt
       \/ /\ archive' = Truncated
          /\ Raise("add_model")
    /\ UNCHANGED <<args, cwdReq, tempScript, requirements_file,
                   model_package, s3_key, s3_url, uploadCall, uploadOutcome,
                   stdout, steps>>

SkipModelFiles ==
    /\ pc = "add_model"
    /\ ~args.model_dir.exists
    /\ pc' = "add_requirements"
    /\ UNCHANGED <<args, cwdReq, tempScript, archive, requirements_file,
                   model_package, s3_key, s3_url, uploadCall, uploadOutcome,
                   stdout, steps, failedAt>>

\* The test with its first conjunct dropped.
RequirementsOnDisk == cwdReq.exists

RequirementsGiven == requirements_file # "" /\ cwdReq.exists

AddRequirements ==
    /\ pc = "add_requirements"
    /\ RequirementsGiven
    /\ \/ /\ archive' = [archive EXCEPT !.entries =
                            Append(@, Entry("requirements.txt", 0,
                                            cwdReq.content))]
          /\ pc' = "temp_script"
          /\ UNCHANGED failedAt
       \/ /\ archive' = Truncated
          /\ Raise("add_requirements")
    /\ UNCHANGED <<args, cwdReq, tempScript, requirements_file,
                   model_package, s3_key, s3_url, uploadCall, uploadOutcome,
                   stdout, steps>>

SkipRequirements ==
    /\ pc = "add_requirements"
    /\ ~RequirementsGiven
    /\ pc' = "temp_script"
    /\ UNCHANGED <<args, cwdReq, tempScript, archive, requirements_file,
                   model_package, s3_key, s3_url, uploadCall, uploadOutcome,
                   stdout, steps, failedAt>>

\* NamedTemporaryFile(delete=False), write, close.
WriteTempScript ==
    /\ pc = "temp_script"
    /\ \/ /\ tempScript' = [exists |-> TRUE,
                            content |-> create_inference_script]
          /\ archive' = archive
          /\ pc' = "add_script"
          /\ UNCHANGED failedAt
       \/ \* the file cannot be created
          /\ tempScript' = tempScript
          /\ archive' = Truncated
          /\ Raise("temp_create")
       \/ \* the file is created, the write or the flush on close fails
          /\ tempScript' = [exists |-> TRUE, content |-> <<>>]
          /\ archive' = Truncated
          /\ Raise("temp_write")
    /\ UNCHANGED <<args, cwdReq, requirements_file, model_package, s3_key,
                   s3_url, uploadCall, uploadOutcome, stdout, steps>>

\* The add's failure swallowed by an except clause instead of a finally.
AddInferenceScriptSwallowed ==
    /\ pc = "add_script"
    /\ tempScript' = NoFile
    /\ \/ /\ archive' = [archive EXCEPT !.entries =
                            Append(@, Entry("inference.py", 0,
                                            tempScript.content))]
          /\ UNCHANGED failedAt
       \/ /\ archive' = archive
          /\ failedAt' = "add_script"
    /\ pc' = "tar_close"
    /\ UNCHANGED <<args, cwdReq, requirements_file, model_package, s3_key,
                   s3_url, uploadCall, uploadOutcome, stdout, steps>>

\* try: tar.add(temp_script, "inference.py")  finally: os.unlink(temp_script)
AddInferenceScript ==
    /\ pc = "add_script"
    /\ tempScript' = NoFile
    /\ \/ /\ archive' = [archive EXCEPT !.entries =
                            Append(@, Entry("inference.py", 0,
                                            tempScript.content))]
          /\ pc' = "tar_close"
          /\ UNCHANGED failedAt
       \/ /\ archive' = Truncated
          /\ Raise("add_script")
    /\ UNCHANGED <<args, cwdReq, requirements_file, model_package, s3_key,
                   s3_url, uploadCall, uploadOutcome, stdout, steps>>

\* Leaving the with block closes the archive; the function returns.
TarClose ==
    /\ pc = "tar_close"
    /\ \/ /\ archive' = [archive EXCEPT !.state = "closed"]
          /\ stdout' = Append(stdout, [msg |-> "package_created",
                                       package |-> model_package,
                                       url |-> None])
          /\ pc' = "upload"
          /\ UNCHANGED failedAt
       \/ /\ archive' = Truncated
          /\ Raise("tar_close")
          /\ UNCHANGED stdout
    /\ UNCHANGED <<args, cwdReq, tempScript, requirements_file,
                   model_package, s3_key, s3_url, uploadCall, uploadOutcome,
                   steps>>

\* except ClientError: the one class of failure the handler catches.
Caught(kind) == kind = "ClientError"

\* An upload that is attempted again after a caught failure.
UploadToS3Retrying ==
    /\ pc = "upload"
    /\ Len(uploadCall) < 2
    /\ steps' = Append(steps, "upload")
    /\ s3_key' = S3Key(args.model_name)
    /\ uploadCall' = Append(uploadCall,
                            [file |-> model_package,
                             bucket |-> args.bucket_name,
                             key |-> s3_key',
                             archive |-> archive.state])
    /\ \E outcome \in {"ok"} \cup UploadFailureKinds :
          /\ uploadOutcome' = outcome
          /\ IF outcome = "ok"
             THEN /\ s3_url' = S3Url(args.bucket_name, s3_key')
                  /\ stdout' = Append(stdout, [msg |-> "uploaded",
                                               package |-> None,
                                               url |-> s3_url'])
                  /\ pc' = "report"
                  /\ UNCHANGED failedAt
             ELSE IF Caught(outcome)
             THEN /\ s3_url' = None
                  /\ stdout' = Append(stdout, [msg |-> "upload_error",
                                               package |-> None,
                                               url |-> None])
                  /\ pc' = IF Len(uploadCall) = 0 THEN "upload" ELSE "report"
                  /\ UNCHANGED failedAt
             ELSE /\ Raise("upload")
                  /\ UNCHANGED <<s3_url, stdout>>
    /\ UNCHANGED <<args, cwdReq, tempScript, archive, requirements_file,
                   model_package>>

\* main computes the key and calls upload_to_s3.
UploadToS3 ==
    /\ pc = "upload"
    /\ steps' = Append(steps, "upload")
    /\ s3_key' = S3Key(args.model_name)
    /\ uploadCall' = Append(uploadCall,
                            [file |-> model_package,
                             bucket |-> args.bucket_name,
                             key |-> s3_key',
                             archive |-> archive.state])
    /\ \E outcome \in {"ok"} \cup UploadFailureKinds :
          /\ uploadOutcome' = outcome
          /\ IF outcome = "ok"
             THEN /\ s3_url' = S3Url(args.bucket_name, s3_key')
                  /\ stdout' = Append(stdout, [msg |-> "uploaded",
                                               package |-> None,
                                               url |-> s3_url'])
                  /\ pc' = "report"
                  /\ UNCHANGED failedAt
             ELSE IF Caught(outcome)
             THEN /\ s3_url' = None
                  /\ stdout' = Append(stdout, [msg |-> "upload_error",
                                               package |-> None,
                                               url |-> None])
                  /\ pc' = "report"
                  /\ UNCHANGED failedAt
             ELSE /\ Raise("upload")
                  /\ UNCHANGED <<s3_url, stdout>>
    /\ UNCHANGED <<args, cwdReq, tempScript, archive, requirements_file,
                   model_package>>

\* if s3_url: success summary, else failure notice.
Report ==
    /\ pc = "report"
    /\ steps' = Append(steps, "message")
    /\ stdout' = Append(stdout,
                        IF s3_url # None
                        THEN [msg |-> "success", package |-> model_package,
                              url |-> s3_url]
                        ELSE [msg |-> "failure", package |-> None,
                              url |-> None])
    /\ pc' = "cleanup"
    /\ UNCHANGED <<args, cwdReq, tempScript, archive, requirements_file,
                   model_package, s3_key, s3_url, uploadCall, uploadOutcome,
                   failedAt>>

\* if requirements_file and os.path.exists(requirements_file): os.remove
Cleanup ==
    /\ pc = "cleanup"
    /\ steps' = Append(steps, "cleanup")
    /\ cwdReq' = IF RequirementsGiven THEN NoFile ELSE cwdReq
    /\ pc' = "done"
    /\ UNCHANGED <<args, tempScript, archive, requirements_file,
                   model_package, s3_key, s3_url, uploadCall, uploadOutcome,
                   stdout, failedAt>>

Next ==
    \/ MakeDirs
    \/ CreateRequirementsFile
    \/ NoRequirements
    \/ TarOpen
    \/ AddModelFiles
    \/ SkipModelFiles
    \/ AddRequirements
    \/ SkipRequirements
    \/ WriteTempScript
    \/ AddInferenceScript
    \/ TarClose
    \/ UploadToS3
    \/ Report
    \/ Cleanup

Spec == Init /\ [][Next]_vars


\* ------------------------------------------------- vocabulary of the claims
Terminated == pc \in {"done", "crashed"}
InSteps(step) == \E i \in DOMAIN steps : steps[i] = step
Printed(m) == {i \in DOMAIN stdout : stdout[i].msg = m}
Produced == archive.state = "closed"
EntriesNamed(arcname) ==
    {i \in DOMAIN archive.entries :
        /\ archive.entries[i].arcname = arcname
        /\ archive.entries[i].member = 0}
ManifestCreated == requirements_file # ""
LocalSteps ==
    {"makedirs", "manifest", "build", "add_model", "add_requirements",
     "temp_create", "temp_write", "add_script", "tar_close"}

Rank(step) ==
    CASE step = "makedirs" -> 0
      [] step = "manifest" -> 1
      [] step = "build" -> 2
      [] step = "upload" -> 3
      [] step = "message" -> 4
      [] step = "cleanup" -> 5

RECURSIVE SplitLines(_, _)
SplitLines(text, line) ==
    IF text = <<>> THEN (IF line = <<>> THEN <<>> ELSE <<line>>)
    ELSE IF Head(text) = "\n" THEN <<line>> \o SplitLines(Tail(text), <<>>)
    ELSE SplitLines(Tail(text), Append(line, Head(text)))

HasSlash(s) == \E i \in DOMAIN s : s[i] = "/"
LastSlash(p) ==
    IF HasSlash(p)
    THEN CHOOSE i \in DOMAIN p :
            p[i] = "/" /\ \A j \in DOMAIN p : p[j] = "/" => j <= i
    ELSE 0
RECURSIVE StripSlashes(_)
StripSlashes(d) ==
    IF Len(d) > 1 /\ d[Len(d)] = "/"
    THEN StripSlashes(SubSeq(d, 1, Len(d) - 1))
    ELSE d
Basename(p) == SubSeq(p, LastSlash(p) + 1, Len(p))
Dirname(p) == StripSlashes(SubSeq(p, 1, LastSlash(p)))

ExpectedKey ==
    <<"m", "o", "d", "e", "l", "s", "/">> \o args.model_name
        \o <<".", "t", "a", "r", ".", "g", "z">>
ExpectedFileName == args.model_name \o <<".", "t", "a", "r", ".", "g", "z">>
ExpectedAddress ==
    <<"s", "3", ":", "/", "/">> \o args.bucket_name \o <<"/">> \o ExpectedKey

\* ------------------------------------------------------------------ claims

\* C1: in a run that created the manifest and reached the upload, the
\* manifest file no longer exists when the run has ended, however the
\* upload ended.
C1_ManifestRemovedAtEnd ==
    (Terminated /\ ManifestCreated /\ InSteps("upload")) => ~cwdReq.exists

\* C2: whatever kind of failure the storage client reports, upload_to_s3
\* does not propagate it: it prints the diagnostic and returns None.
C2_UploadNeverPropagates ==
    uploadOutcome \in UploadFailureKinds =>
        /\ failedAt # "upload"
        /\ s3_url = None
        /\ Printed("upload_error") # {}

\* C3: the steps of main happen in the fixed order manifest, build, upload,
\* message, cleanup, each at most once, and the one upload is attempted on
\* a completely written and closed archive.
C3_StrictLinearOrder ==
    /\ \A i, j \in DOMAIN steps :
          i < j => Rank(steps[i]) < Rank(steps[j])
    /\ Len(uploadCall) <= 1
    /\ \A i \in DOMAIN uploadCall : uploadCall[i].archive = "closed"
    /\ InSteps("upload") => Produced /\ pc \notin {"tar_open", "add_model",
            "add_requirements", "temp_script", "add_script", "tar_close"}

C3_Witness ==
    /\ pc = "done"
    /\ steps = <<"makedirs", "manifest", "build", "upload", "message",
                 "cleanup">>
    /\ uploadOutcome = "ClientError"

\* C4: outside the one step that adds it to the archive, the temporary
\* adapter-script file does not exist; no exit of create_model_package
\* leaves it on disk.
C4_TempScriptRemoved == pc # "add_script" => ~tempScript.exists

\* C5: a produced archive has a requirements.txt entry exactly when package
\* names were supplied, its lines are the supplied names in order, and the
\* inference.py entry is always there.
C5_ArchiveContents ==
    Produced =>
        /\ Cardinality(EntriesNamed("requirements.txt")) =
              (IF args.requirements # <<>> THEN 1 ELSE 0)
        /\ \A i \in EntriesNamed("requirements.txt") :
              SplitLines(archive.entries[i].data, <<>>) = args.requirements
        /\ Cardinality(EntriesNamed("inference.py")) = 1

C5_Witness ==
    /\ Produced
    /\ Len(args.requirements) >= 2
    /\ args.requirements[1] # args.requirements[2]
    /\ EntriesNamed("requirements.txt") # {}

\* C6 as first stated: for every model name, key, address and local file
\* name are models/N.tar.gz, s3://bucket/models/N.tar.gz and N.tar.gz in
\* the output directory.
C6_NamesForEveryModelName ==
    /\ \A i \in DOMAIN uploadCall :
          /\ uploadCall[i].key = ExpectedKey
          /\ uploadCall[i].bucket = args.bucket_name
    /\ uploadOutcome = "ok" => s3_url = ExpectedAddress
    /\ model_package # None =>
          /\ Basename(model_package) = ExpectedFileName
          /\ Dirname(model_package) = StripSlashes(args.output_dir)

\* C6 amended: key and address are as stated for every model name; the
\* local archive is the file N.tar.gz in the output directory for every
\* model name without a path separator.
C6_NamesForPlainModelName ==
    /\ \A i \in DOMAIN uploadCall :
          /\ uploadCall[i].key = ExpectedKey
          /\ uploadCall[i].bucket = args.bucket_name
          /\ uploadCall[i].file = model_package
    /\ uploadOutcome = "ok" => s3_url = ExpectedAddress
    /\ (model_package # None /\ ~HasSlash(args.model_name)) =>
          /\ Basename(model_package) = ExpectedFileName
          /\ Dirname(model_package) = StripSlashes(args.output_dir)

C6_Witness ==
    /\ uploadOutcome = "ok"
    /\ s3_url # None
    /\ ~HasSlash(args.model_name)
    /\ Len(args.model_name) >= 2
    /\ args.output_dir = <<"o", "/">>

\* C7: a run that reached the upload prints exactly one of success summary
\* and failure notice, the summary exactly when the upload returned an
\* address, and then runs the cleanup and returns normally.
C7_OneOutcomeThenNormalReturn ==
    (Terminated /\ InSteps("upload")) =>
        /\ Cardinality(Printed("success")) + Cardinality(Printed("failure")) = 1
        /\ (Printed("success") # {}) <=> (uploadOutcome = "ok")
        /\ InSteps("cleanup")
        /\ pc = "done"

\* C8: a failure of a local step before the upload ends the run there: no
\* upload, no summary, no notice, nothing after it; an upload is only ever
\* made of a complete archive.
C8_LocalFailureIsFatal ==
    /\ failedAt \in LocalSteps =>
          /\ pc = "crashed"
          /\ uploadCall = <<>>
          /\ ~InSteps("upload") /\ ~InSteps("message") /\ ~InSteps("cleanup")
          /\ Printed("success") = {} /\ Printed("failure") = {}
    /\ uploadCall # <<>> =>
          /\ archive.state # "partial"
          /\ EntriesNamed("inference.py") # {}

C8_Witness ==
    /\ failedAt = "add_script"
    /\ archive.state = "partial"
    /\ archive.entries # <<>>
    /\ pc = "crashed"

\* C9: a missing model directory is no error: the archive is produced
\* without a model entry, with the adapter (and the manifest when
\* supplied), and the run goes on to the upload; an existing directory
\* gets an entry for each of its files.
C9_ModelDirOptional ==
    /\ ~args.model_dir.exists =>
          /\ failedAt # "add_model"
          /\ \A i \in DOMAIN archive.entries :
                archive.entries[i].arcname # "model"
    /\ (~args.model_dir.exists /\ Produced) =>
          /\ EntriesNamed("inference.py") # {}
          /\ (EntriesNamed("requirements.txt") # {}) <=>
                (args.requirements # <<>>)
          /\ pc = "upload" \/ InSteps("upload")
    /\ (args.model_dir.exists /\ Produced) =>
          /\ EntriesNamed("model") # {}
          /\ \A f \in args.model_dir.files :
                \E i \in DOMAIN archive.entries :
                    /\ archive.entries[i].arcname = "model"
                    /\ archive.entries[i].member = f

C9_Witness ==
    /\ ~args.model_dir.exists
    /\ Produced
    /\ InSteps("upload")
    /\ args.requirements # <<>>
    /\ Len(archive.entries) = 2

\* C10: without package names no step changes requirements.txt in the
\* working directory, and no step puts a requirements.txt entry in the
\* archive.
C10_NoManifestFrame ==
    [][args.requirements = <<>> =>
         /\ cwdReq' = cwdReq
         /\ \A i \in DOMAIN archive'.entries :
               archive'.entries[i].arcname # "requirements.txt"]_vars

C10_Witness ==
    /\ args.requirements = <<>>
    /\ cwdReq = [exists |-> TRUE, content |-> PriorRequirements]
    /\ Produced
    /\ pc = "done"

====
